---- MODULE Spec2Model ----
(***************************************************************************)
(* The CSV-backed book repository of openbooks-api (src/api/repository.py): *)
(* the table loader, the freshness cache (_df), health() and the query     *)
(* methods, as a state machine over one backing file and one repository    *)
(* instance.                                                               *)
(*                                                                         *)
(* Text is a sequence of one-character strings.  A cell of a DataFrame is  *)
(* a tagged tuple: NaN (missing), Num(n) or Str(text).  Optional values    *)
(* are None (the empty tuple) or Some(v).                                  *)
(***************************************************************************)
EXTENDS Integers, Sequences, FiniteSets, TLC

VARIABLES file, clock, written, cache_df, cache_mtime, call, pc, t_mtime, t_df, ret

vars == <<file, clock, written, cache_df, cache_mtime, call, pc, t_mtime, t_df, ret>>

(* ------------------------------- bounds -------------------------------- *)

\* Number of times the backing file is written (each write gets a fresh mtime).
MaxTime == 2

\* Longest table drawn for the query operations.
MaxRows == 2

(* ------------------------------- values -------------------------------- *)

None == <<>>

Some(v) == <<v>>

NaN == <<"nan">>

Num(n) == <<"num", n>>

Str(s) == <<"str", s>>

IsNum(c) == c[1] = "num"

IsStr(c) == c[1] = "str"

Range(s) == {s[i] : i \in 1..Len(s)}

\* Expected CSV schema.
EXPECTED == <<"title", "price", "rating", "availability", "category", "image_url", "product_url">>

Digits == {"0", "1", "2", "3", "4", "5", "6", "7", "8", "9"}

DigitVal(c) ==
    CASE c = "0" -> 0 [] c = "1" -> 1 [] c = "2" -> 2 [] c = "3" -> 3 [] c = "4" -> 4
      [] c = "5" -> 5 [] c = "6" -> 6 [] c = "7" -> 7 [] c = "8" -> 8 [] c = "9" -> 9

\* Whether a text parses as a (non-negative, integral) number.
IsNumericText(s) == Len(s) > 0 /\ \A i \in 1..Len(s) : s[i] \in Digits

RECURSIVE ParseNat(_)
ParseNat(s) ==
    IF Len(s) = 0 THEN 0
    ELSE 10 * ParseNat(SubSeq(s, 1, Len(s) - 1)) + DigitVal(s[Len(s)])

(* ------------------------------ the file ------------------------------- *)

\* A file content: parsable or not; a header (sequence of column names) and rows,
\* each row a function from the header's columns to raw text (<<>> is an empty field).
Content(hdr, rws) == [ok |-> TRUE, header |-> hdr, rows |-> rws]

BadContent == [ok |-> FALSE, header |-> <<>>, rows |-> <<>>]

NoFile == [exists |-> FALSE, mtime |-> 0, content |-> BadContent]

\* A row of a file with the full expected header.
Book(t, p, r, c) ==
    [title |-> t, price |-> p, rating |-> r, availability |-> <<"y">>,
     category |-> c, image_url |-> <<"u">>, product_url |-> <<"u">>]

(* --------------------------- the table loader -------------------------- *)

\* pandas infers a column as numeric when it has rows and every non-empty field parses.
ColumnNumeric(content, col) ==
    /\ Len(content.rows) > 0
    /\ \A i \in 1..Len(content.rows) :
          content.rows[i][col] = <<>> \/ IsNumericText(content.rows[i][col])

ReadCell(content, col, i) ==
    LET raw == content.rows[i][col]
    IN  IF raw = <<>> THEN NaN
        ELSE IF ColumnNumeric(content, col) THEN Num(ParseNat(raw))
        ELSE Str(raw)

\* pd.read_csv: the file's own columns, typed.
ReadCsv(content) ==
    [columns |-> content.header,
     dtypes  |-> [c \in Range(content.header) |->
                     IF ColumnNumeric(content, c) THEN "number" ELSE "object"],
     rows    |-> [i \in 1..Len(content.rows) |->
                     [c \in Range(content.header) |-> ReadCell(content, c, i)]]]

\* The load fails (raises) when the file exists and cannot be parsed.
LoadFails(f) == f.exists /\ ~f.content.ok

\* _load_df, where it does not fail.
_load_df(f) ==
    IF ~f.exists
    THEN [columns |-> EXPECTED, dtypes |-> [c \in Range(EXPECTED) |-> "object"], rows |-> <<>>]
    ELSE LET df == ReadCsv(f.content)
             has(c) == c \in Range(df.columns)
         IN  [columns |-> EXPECTED,
              dtypes  |-> [c \in Range(EXPECTED) |-> IF has(c) THEN df.dtypes[c] ELSE "object"],
              rows    |-> [i \in 1..Len(df.rows) |->
                              [c \in Range(EXPECTED) |-> IF has(c) THEN df.rows[i][c] ELSE NaN]]]

\* _with_ids: a 1-based id column derived from row order.
_with_ids(df) ==
    [columns |-> Append(df.columns, "id"),
     dtypes  |-> [c \in Range(df.columns) \cup {"id"} |-> IF c = "id" THEN "number" ELSE df.dtypes[c]],
     rows    |-> [i \in 1..Len(df.rows) |->
                     [c \in Range(df.columns) \cup {"id"} |-> IF c = "id" THEN Num(i) ELSE df.rows[i][c]]]]

(* -------------------------- the freshness cache ------------------------ *)

\* csv_path.stat().st_mtime if csv_path.exists() else None
StatMtime(f) == IF f.exists THEN Some(f.mtime) ELSE None

\* A freshness check that loads once and never looks at the timestamp again.
NeedsReloadOnce(cdf, cmt, mtime) == cdf = None

\* The freshness check of _df.
NeedsReload(cdf, cmt, mtime) == cdf = None \/ mtime # cmt

\* A _df that replaces the table on reload and leaves the stored timestamp alone.
_df_keeps_mtime(cdf, cmt, f) ==
    LET mtime == StatMtime(f)
    IN  IF NeedsReload(cdf, cmt, mtime)
        THEN IF LoadFails(f)
             THEN [df |-> cdf, mtime |-> cmt, loaded |-> TRUE, raised |-> TRUE, out |-> None]
             ELSE LET t == _with_ids(_load_df(f))
                  IN  [df |-> Some(t), mtime |-> cmt, loaded |-> TRUE, raised |-> FALSE,
                       out |-> Some(t)]
        ELSE [df |-> cdf, mtime |-> cmt, loaded |-> FALSE, raised |-> FALSE, out |-> cdf]

\* A _df that drops the cache entry before loading, so a failed load leaves it empty.
_df_clears_first(cdf, cmt, f) ==
    LET mtime == StatMtime(f)
    IN  IF NeedsReload(cdf, cmt, mtime)
        THEN IF LoadFails(f)
             THEN [df |-> None, mtime |-> mtime, loaded |-> TRUE, raised |-> TRUE, out |-> None]
             ELSE LET t == _with_ids(_load_df(f))
                  IN  [df |-> Some(t), mtime |-> mtime, loaded |-> TRUE, raised |-> FALSE,
                       out |-> Some(t)]
        ELSE [df |-> cdf, mtime |-> cmt, loaded |-> FALSE, raised |-> FALSE, out |-> cdf]

\* One whole call of _df on the cache entry (cdf, cmt) with the file f: the new cache
\* entry, whether the loader was invoked, whether it raised, and the table returned.
_df(cdf, cmt, f) ==
    LET mtime == StatMtime(f)
    IN  IF NeedsReload(cdf, cmt, mtime)
        THEN IF LoadFails(f)
             THEN [df |-> cdf, mtime |-> cmt, loaded |-> TRUE, raised |-> TRUE, out |-> None]
             ELSE LET t == _with_ids(_load_df(f))
                  IN  [df |-> Some(t), mtime |-> mtime, loaded |-> TRUE, raised |-> FALSE,
                       out |-> Some(t)]
        ELSE [df |-> cdf, mtime |-> cmt, loaded |-> FALSE, raised |-> FALSE, out |-> cdf]

(* ------------------------- the datasets on disk ------------------------ *)

\* Three books at price 10 (avg_price 10).
DataA ==
    Content(EXPECTED,
            << Book(<<"a">>, <<"1", "0">>, <<"3">>, <<"x">>),
               Book(<<"b">>, <<"1", "0">>, <<"5">>, <<"x">>),
               Book(<<"a", "b">>, <<"1", "0">>, <<"1">>, <<"z">>) >>)

\* One book at price 50.
DataB == Content(EXPECTED, << Book(<<"b">>, <<"5", "0">>, <<"5">>, <<"z">>) >>)

\* A file without the category column and with a column the schema does not know.
DataC ==
    Content(<<"price", "isbn", "title">>,
            << [price |-> <<"7">>, isbn |-> <<"9">>, title |-> <<"a">>],
               [price |-> <<"a">>, isbn |-> <<"9">>, title |-> <<>>] >>)

\* What the crawler (or anything else) may leave at the path.
FileContents == {DataA, DataB, BadContent}

\* The content the file had when its modification time was m.
FileAt(m) == [exists |-> TRUE, mtime |-> m, content |-> written[m]]

(* ------------------------------ the callers ---------------------------- *)

Threads == {"t1", "t2"}

Idle == [op |-> "idle", args |-> <<>>, pre_df |-> None, pre_mtime |-> None, obs |-> None,
         loaded |-> FALSE, raised |-> FALSE, out |-> None]

\* The record of a finished call: what was asked, the cache entry it found, the mtime
\* it observed, whether _df invoked the loader, whether it raised, and what it returned.
Called(name, a, d, r) ==
    [op |-> name, args |-> a, pre_df |-> cache_df, pre_mtime |-> cache_mtime,
     obs |-> StatMtime(file), loaded |-> d.loaded, raised |-> r.raised, out |-> r.out]

Init ==
    /\ file = NoFile
    /\ clock = 0
    /\ written = <<>>
    /\ cache_df = None
    /\ cache_mtime = None
    /\ call = Idle
    /\ pc = [t \in Threads |-> "idle"]
    /\ t_mtime = [t \in Threads |-> None]
    /\ t_df = [t \in Threads |-> None]
    /\ ret = [t \in Threads |-> None]

(* ------------------------------ file events ---------------------------- *)

\* The file is created or replaced; its modification time advances.
WriteFile ==
    /\ clock < MaxTime
    /\ \E c \in FileContents :
          /\ file' = [exists |-> TRUE, mtime |-> clock + 1, content |-> c]
          /\ written' = Append(written, c)
    /\ clock' = clock + 1
    /\ UNCHANGED <<cache_df, cache_mtime, call, pc, t_mtime, t_df, ret>>

DeleteFile ==
    /\ file.exists
    /\ file' = NoFile
    /\ UNCHANGED <<clock, written, cache_df, cache_mtime, call, pc, t_mtime, t_df, ret>>

(* --------------------- calls on one repository instance ---------------- *)

\* The caller takes the response; the repository is ready for the next call.
Return ==
    /\ call.op # "idle"
    /\ call' = Idle
    /\ UNCHANGED <<file, clock, written, cache_df, cache_mtime, pc, t_mtime, t_df, ret>>

\* get_table: a call of _df.
GetTable ==
    /\ call.op = "idle"
    /\ LET d == _df(cache_df, cache_mtime, file)
       IN  /\ cache_df' = d.df
           /\ cache_mtime' = d.mtime
           /\ call' = Called("_df", <<>>, d, d)
    /\ UNCHANGED <<file, clock, written, pc, t_mtime, t_df, ret>>

\* dt.datetime.fromtimestamp(m).isoformat()
IsoFormat(m) == <<"iso", m>>

\* Python truthiness of an Optional[float].
Truthy(m) == m # None /\ m[1] # 0

\* health(): _df is called only when the file exists; last_updated reads the stored
\* timestamp afterwards.
Health ==
    /\ call.op = "idle"
    /\ LET exists == file.exists
           d == IF exists THEN _df(cache_df, cache_mtime, file)
                ELSE [df |-> cache_df, mtime |-> cache_mtime, loaded |-> FALSE,
                      raised |-> FALSE, out |-> None]
           rows == IF exists THEN Len(d.out[1].rows) ELSE 0
           last_updated == IF Truthy(d.mtime) THEN Some(IsoFormat(d.mtime[1])) ELSE None
       IN  /\ cache_df' = d.df
           /\ cache_mtime' = d.mtime
           /\ call' = Called("health", <<>>, d,
                             [raised |-> d.raised,
                              out |-> IF d.raised THEN None
                                      ELSE Some([csv_exists |-> exists, rows |-> rows,
                                                 last_updated |-> last_updated])])
    /\ UNCHANGED <<file, clock, written, pc, t_mtime, t_df, ret>>

Next == WriteFile \/ DeleteFile \/ Return \/ GetTable \/ Health

Spec == Init /\ [][Next]_vars

(* ---------------------- the freshness cache: claims -------------------- *)

\* The table a load of the file as it was at modification time m yields.
LoadedAt(m) == _with_ids(_load_df(FileAt(m)))

\* C1: a call of _df invokes the loader exactly when no table is cached or the observed
\* modification time (None when the file is absent) differs from the stored one;
\* otherwise it returns the cached table and leaves the cache entry alone; and a call
\* that finds the file at a new modification time answers from that file's content.
C1_ReloadExactlyOnChange ==
    call.op = "_df" =>
        /\ call.loaded <=> (call.pre_df = None \/ call.obs # call.pre_mtime)
        /\ ~call.loaded =>
              /\ call.out = call.pre_df
              /\ cache_df = call.pre_df
              /\ cache_mtime = call.pre_mtime
        /\ (call.obs # None /\ call.obs # call.pre_mtime /\ ~call.raised) =>
              call.out = Some(LoadedAt(call.obs[1]))

\* The example of the specification: three books at price 10 are cached, the file is
\* replaced by one book at price 50, and the next call returns that one book.
C1_Witness ==
    /\ call.op = "_df"
    /\ call.loaded
    /\ call.pre_df # None
    /\ call.out # None
    /\ Len(call.pre_df[1].rows) = 3
    /\ \A i \in 1..3 : call.pre_df[1].rows[i].price = Num(10)
    /\ Len(call.out[1].rows) = 1
    /\ call.out[1].rows[1].price = Num(50)

C3_FailedLoadKeepsCache ==
    (/\ call.op \in {"_df", "health"}
     /\ call.loaded
     /\ call.obs # None
     /\ LoadFails(FileAt(call.obs[1]))) =>
        /\ call.raised
        /\ call.out = None
        /\ cache_df = call.pre_df
        /\ cache_mtime = call.pre_mtime

\* A reload fails while a good table is cached.
C3_Witness ==
    /\ call.op = "_df"
    /\ call.raised
    /\ call.pre_df # None
    /\ Len(call.pre_df[1].rows) = 3
    /\ cache_df = call.pre_df

\* C4: health() reports whether the file exists, the row count of the table for the
\* current file (0 when absent), and the ISO time of the file's modification time,
\* None whenever the file is absent.
C4_HealthReportsFile ==
    (call.op = "health" /\ ~call.raised) =>
        /\ call.out[1].csv_exists = (call.obs # None)
        /\ call.out[1].rows = (IF call.obs = None THEN 0 ELSE Len(LoadedAt(call.obs[1]).rows))
        /\ call.out[1].last_updated =
              (IF call.obs = None THEN None ELSE Some(IsoFormat(call.obs[1])))

(* ------------- concurrent calls of _df on one repository instance ------- *)

\* Line 55: the calling thread reads the file's modification time.
Stat(t) ==
    /\ pc[t] = "idle"
    /\ t_mtime' = [t_mtime EXCEPT ![t] = StatMtime(file)]
    /\ ret' = [ret EXCEPT ![t] = None]
    /\ pc' = [pc EXCEPT ![t] = "check"]
    /\ UNCHANGED <<file, clock, written, cache_df, cache_mtime, call, t_df>>

\* Line 56: the freshness check against the shared cache entry.
Check(t) ==
    /\ pc[t] = "check"
    /\ pc' = [pc EXCEPT ![t] = IF NeedsReload(cache_df, cache_mtime, t_mtime[t])
                               THEN "load" ELSE "return"]
    /\ UNCHANGED <<file, clock, written, cache_df, cache_mtime, call, t_mtime, t_df, ret>>

\* A loader that builds the table in the shared field instead of a local.
LoadInPlace(t) ==
    /\ pc[t] = "load"
    /\ IF LoadFails(file)
       THEN /\ pc' = [pc EXCEPT ![t] = "idle"]
            /\ ret' = [ret EXCEPT ![t] = None]
            /\ UNCHANGED <<t_df, cache_df>>
       ELSE /\ t_df' = [t_df EXCEPT ![t] = Some(_load_df(file))]
            /\ cache_df' = Some(_load_df(file))
            /\ pc' = [pc EXCEPT ![t] = "ids"]
            /\ UNCHANGED ret
    /\ UNCHANGED <<file, clock, written, cache_mtime, call, t_mtime>>

\* Line 57, _load_df(self.csv_path): the table is built in a local of the thread; a
\* failure raises out of _df with nothing assigned.
Load(t) ==
    /\ pc[t] = "load"
    /\ IF LoadFails(file)
       THEN /\ pc' = [pc EXCEPT ![t] = "idle"]
            /\ ret' = [ret EXCEPT ![t] = None]
            /\ UNCHANGED t_df
       ELSE /\ t_df' = [t_df EXCEPT ![t] = Some(_load_df(file))]
            /\ pc' = [pc EXCEPT ![t] = "ids"]
            /\ UNCHANGED ret
    /\ UNCHANGED <<file, clock, written, cache_df, cache_mtime, call, t_mtime>>

\* Line 57, _with_ids(...): reset_index makes a new frame and the id column is added
\* to it, still local to the thread.
Ids(t) ==
    /\ pc[t] = "ids"
    /\ t_df' = [t_df EXCEPT ![t] = Some(_with_ids(t_df[t][1]))]
    /\ pc' = [pc EXCEPT ![t] = "store_df"]
    /\ UNCHANGED <<file, clock, written, cache_df, cache_mtime, call, t_mtime, ret>>

\* Line 57, the assignment: the finished table is published as one reference.
StoreDf(t) ==
    /\ pc[t] = "store_df"
    /\ cache_df' = t_df[t]
    /\ t_df' = [t_df EXCEPT ![t] = None]
    /\ pc' = [pc EXCEPT ![t] = "store_mtime"]
    /\ UNCHANGED <<file, clock, written, cache_mtime, call, t_mtime, ret>>

\* Line 58: the timestamp the thread observed is stored.
StoreMtime(t) ==
    /\ pc[t] = "store_mtime"
    /\ cache_mtime' = t_mtime[t]
    /\ pc' = [pc EXCEPT ![t] = "return"]
    /\ UNCHANGED <<file, clock, written, cache_df, call, t_mtime, t_df, ret>>

\* Line 59: the thread returns whatever the shared field holds now.
ReturnDf(t) ==
    /\ pc[t] = "return"
    /\ ret' = [ret EXCEPT ![t] = cache_df]
    /\ t_mtime' = [t_mtime EXCEPT ![t] = None]
    /\ pc' = [pc EXCEPT ![t] = "idle"]
    /\ UNCHANGED <<file, clock, written, cache_df, cache_mtime, call, t_df>>

NextConc ==
    \/ WriteFile
    \/ DeleteFile
    \/ \E t \in Threads :
          \/ Stat(t)
          \/ Check(t)
          \/ Load(t)
          \/ Ids(t)
          \/ StoreDf(t)
          \/ StoreMtime(t)
          \/ ReturnDf(t)

SpecConc == Init /\ [][NextConc]_vars

\* The tables that are the complete result of one load: of the absent file, or of a
\* content the file has held.
CompleteLoads ==
    {_with_ids(_load_df(NoFile))}
        \cup {LoadedAt(m) : m \in {k \in 1..Len(written) : written[k].ok}}

\* C5: under concurrent calls of _df, every table a caller obtains is the complete
\* result of one single load, never a partly built table.
C5_ReadersSeeCompleteTables ==
    \A t \in Threads : ret[t] # None => ret[t][1] \in CompleteLoads

\* A caller returns the old table while the other caller has built the new one and is
\* about to publish it.
C5_Witness ==
    \E t, u \in Threads :
        /\ pc[u] = "store_df"
        /\ ret[t] # None
        /\ t_df[u] # ret[t]
        /\ Len(ret[t][1].rows) > 0
        /\ Len(t_df[u][1].rows) > 0

(* ------------------------------ the queries ---------------------------- *)

Min(a, b) == IF a < b THEN a ELSE b

Max(a, b) == IF a > b THEN a ELSE b

\* A Python slice bound, clamped into 0..n (a negative bound counts from the end).
SliceBound(k, n) == IF k < 0 THEN Max(n + k, 0) ELSE Min(k, n)

\* seq[start : stop] as .iloc and Python slice it.
ILoc(seq, start, stop) ==
    SubSeq(seq, SliceBound(start, Len(seq)) + 1, SliceBound(stop, Len(seq)))

\* The elements of seq that satisfy Keep, in order.
Select(seq, Keep(_)) ==
    LET RECURSIVE sel(_)
        sel(n) == IF n = 0 THEN <<>>
                  ELSE IF Keep(seq[n]) THEN Append(sel(n - 1), seq[n])
                  ELSE sel(n - 1)
    IN  sel(Len(seq))

\* A stable sort (sort_values) by the strict order Before: each element in turn is put
\* into the sorted prefix, after every element that is not after it.
SortBy(seq, Before(_, _)) ==
    LET RECURSIVE ins(_, _)
        ins(sorted, r) == IF sorted = <<>> THEN <<r>>
                          ELSE IF Before(r, Head(sorted)) THEN <<r>> \o sorted
                          ELSE <<Head(sorted)>> \o ins(Tail(sorted), r)
        RECURSIVE srt(_)
        srt(n) == IF n = 0 THEN <<>> ELSE ins(srt(n - 1), seq[n])
    IN  srt(Len(seq))

\* pd.to_numeric(..., errors="coerce") on one cell.
to_numeric(c) ==
    IF IsNum(c) THEN c
    ELSE IF IsStr(c) /\ IsNumericText(c[2]) THEN Num(ParseNat(c[2]))
    ELSE NaN

\* df with column col replaced by its numeric coercion.
Coerced(df, col) ==
    [df EXCEPT !.dtypes = [@ EXCEPT ![col] = "number"],
               !.rows = [i \in 1..Len(df.rows) |->
                            [df.rows[i] EXCEPT ![col] = to_numeric(df.rows[i][col])]]]

\* _numeric_price
_numeric_price(df) == Coerced(df, "price")

\* What a query returns: a value, or an exception raised out of it.
Ok(v) == [raised |-> FALSE, out |-> v]

Raised == [raised |-> TRUE, out |-> None]

\* A list that slices [offset : limit].
list_stop_at_limit(df, limit, offset) == Ok(ILoc(df.rows, offset, limit))

\* list(limit, offset)
list(df, limit, offset) == Ok(ILoc(df.rows, offset, offset + limit))

\* A get that indexes one row too far.
get_off_by_one(df, book_id) ==
    IF 1 <= book_id /\ book_id < Len(df.rows)
    THEN Ok(Some(df.rows[book_id + 1]))
    ELSE Ok(None)

\* get(book_id)
get(df, book_id) ==
    IF 1 <= book_id /\ book_id <= Len(df.rows)
    THEN Ok(Some(df.rows[book_id]))
    ELSE Ok(None)

\* str.lower on one character of the alphabet used here.
Lower(c) ==
    CASE c = "A" -> "a" [] c = "B" -> "b" [] c = "X" -> "x" [] c = "Y" -> "y"
      [] c = "T" -> "t" [] OTHER -> c

\* re.search(pat, text, re.IGNORECASE) for patterns of literal characters and ".",
\* which matches any character.
RegexSearch(pat, text) ==
    \E i \in 0..(Len(text) - Len(pat)) :
        \A j \in 1..Len(pat) : pat[j] = "." \/ Lower(pat[j]) = Lower(text[i + j])

\* Python truthiness of an Optional[str].
Given(x) == x # None /\ x[1] # <<>>

\* The .str accessor exists only on object columns.
StrAccessorFails(df, col) == df.dtypes[col] # "object"

\* df[df[col].str.contains(pat, case=False, na=False)]
Containing(df, col, pat) ==
    LET keep(r) == IsStr(r[col]) /\ RegexSearch(pat, r[col][2])
    IN  [df EXCEPT !.rows = Select(df.rows, keep)]

\* search(title, category, limit, offset)
search(df, title, category, limit, offset) ==
    IF Given(title) /\ StrAccessorFails(df, "title") THEN Raised
    ELSE LET d1 == IF Given(title) THEN Containing(df, "title", title[1]) ELSE df
         IN  IF Given(category) /\ StrAccessorFails(d1, "category") THEN Raised
             ELSE LET d2 == IF Given(category) THEN Containing(d1, "category", category[1])
                            ELSE d1
                  IN  Ok(ILoc(d2.rows, offset, offset + limit))

\* between with inclusive="neither".
between_exclusive(c, lo, hi) == IsNum(c) /\ lo < c[2] /\ c[2] < hi

\* Series.between(lo, hi, inclusive="both"): a missing value is never between.
between(c, lo, hi) == IsNum(c) /\ lo <= c[2] /\ c[2] <= hi

\* sort_values(["price", "id"], ascending=[True, True])
PriceThenId(a, b) ==
    \/ a.price[2] < b.price[2]
    \/ a.price[2] = b.price[2] /\ a.id[2] < b.id[2]

\* price_range(min_price, max_price, limit, offset)
price_range(df, min_price, max_price, limit, offset) ==
    LET d == _numeric_price(df)
        keep(r) == between(r.price, min_price, max_price)
        sorted == SortBy(Select(d.rows, keep), PriceThenId)
    IN  Ok(ILoc(sorted, offset, offset + limit))

\* The rating sort with na_position="first".
RatingDescNaFirst(a, b) ==
    \/ ~IsNum(a.rating) /\ IsNum(b.rating)
    \/ IsNum(a.rating) /\ IsNum(b.rating) /\ a.rating[2] > b.rating[2]
    \/ a.rating = b.rating /\ a.id[2] < b.id[2]

\* sort_values(["rating", "id"], ascending=[False, True], na_position="last")
RatingDescThenId(a, b) ==
    \/ IsNum(a.rating) /\ ~IsNum(b.rating)
    \/ IsNum(a.rating) /\ IsNum(b.rating) /\ a.rating[2] > b.rating[2]
    \/ a.rating = b.rating /\ a.id[2] < b.id[2]

\* top_rated(limit); head(n) is [:n].
top_rated(df, limit) ==
    LET d == Coerced(df, "rating")
    IN  Ok(ILoc(SortBy(d.rows, RatingDescThenId), 0, limit))

(* ------------------------------ aggregation ---------------------------- *)

RECURSIVE Gcd(_, _)
Gcd(a, b) == IF b = 0 THEN a ELSE Gcd(b, a % b)

\* A float result, kept exact: the fraction n/d in lowest terms (d > 0, n >= 0).
Frac(n, d) == <<"frac", n \div Gcd(n, d), d \div Gcd(n, d)>>

IsFrac(x) == x[1] = "frac"

\* The numeric values of column col, in row order (skipna).
NumbersOf(rows, col) ==
    LET RECURSIVE nums(_)
        nums(n) == IF n = 0 THEN <<>>
                   ELSE IF IsNum(rows[n][col]) THEN Append(nums(n - 1), rows[n][col][2])
                   ELSE nums(n - 1)
    IN  nums(Len(rows))

RECURSIVE SumSeq(_)
SumSeq(xs) == IF xs = <<>> THEN 0 ELSE Head(xs) + SumSeq(Tail(xs))

\* Series.mean(skipna=True): NaN when no value is numeric.
mean(xs) == IF xs = <<>> THEN NaN ELSE Frac(SumSeq(xs), Len(xs))

\* round(x, 2): to the nearest hundredth, a tie to the even one; NaN stays NaN.
round2(x) ==
    IF ~IsFrac(x) THEN x
    ELSE LET n == 100 * x[2]
             q == n \div x[3]
             r == n % x[3]
             up == 2 * r > x[3] \/ (2 * r = x[3] /\ q % 2 = 1)
         IN  Frac(IF up THEN q + 1 ELSE q, 100)

\* avg_price()
avg_price(df) ==
    LET d == _numeric_price(df)
    IN  IF d.rows = <<>> THEN Ok(Frac(0, 1))
        ELSE Ok(mean(NumbersOf(d.rows, "price")))

\* str(n) for a non-negative integer, as text.
RECURSIVE IntText(_)
IntText(n) ==
    LET digit(k) == CHOOSE c \in Digits : DigitVal(c) = k
    IN  IF n < 10 THEN <<digit(n)>> ELSE Append(IntText(n \div 10), digit(n % 10))

\* int(k) fails on a rating that is text and not a number.
IntFails(c) == IsStr(c) /\ ~IsNumericText(c[2])

\* str(int(k)) for a rating value k.
RatingKey(c) == IF IsNum(c) THEN IntText(c[2]) ELSE IntText(ParseNat(c[2]))

\* The keys every distribution is given.
RATING_KEYS == {<<"1">>, <<"2">>, <<"3">>, <<"4">>, <<"5">>}

\* stats_overview(): value_counts(dropna=True) of the rating column as loaded, its
\* values turned into keys by str(int(k)), then the keys "1".."5" defaulted to 0.
stats_overview(df) ==
    LET d == _numeric_price(df)
        total == Len(d.rows)
        rated == {i \in 1..total : d.rows[i].rating # NaN}
        keys == {RatingKey(d.rows[i].rating) : i \in rated}
        count(k) == Cardinality({i \in rated : RatingKey(d.rows[i].rating) = k})
    IN  IF total = 0
        THEN Ok([total_books |-> 0, avg_price |-> Frac(0, 1),
                 ratings_distribution |-> [k \in RATING_KEYS |-> 0]])
        ELSE IF \E i \in rated : IntFails(d.rows[i].rating) THEN Raised
        ELSE Ok([total_books |-> total,
                 avg_price |-> round2(mean(NumbersOf(d.rows, "price"))),
                 ratings_distribution |->
                     [k \in keys \cup RATING_KEYS |-> IF k \in keys THEN count(k) ELSE 0]])


\* ord(c) for the characters used here.
CodePoint(c) ==
    CASE c = " " -> 32 [] c = "." -> 46 [] c \in Digits -> 48 + DigitVal(c)
      [] c = "A" -> 65 [] c = "B" -> 66 [] c = "T" -> 84 [] c = "X" -> 88 [] c = "Y" -> 89
      [] c = "a" -> 97 [] c = "b" -> 98 [] c = "n" -> 110 [] c = "t" -> 116 [] c = "u" -> 117
      [] c = "x" -> 120 [] c = "y" -> 121 [] OTHER -> 122

\* a < b for two str: by code point at the first difference, a proper prefix first.
TextLess(a, b) ==
    \E i \in 1..(Len(b)) :
        /\ i <= Len(a) + 1
        /\ \A j \in 1..(i - 1) : a[j] = b[j]
        /\ IF i > Len(a) THEN TRUE ELSE CodePoint(a[i]) < CodePoint(b[i])

\* a < b for two values of one column: numbers by value, text as str.
CellLess(a, b) ==
    IF IsNum(a) /\ IsNum(b) THEN a[2] < b[2]
    ELSE IsStr(a) /\ IsStr(b) /\ TextLess(a[2], b[2])

\* str.strip(): the text without its leading and trailing whitespace.
Stripped(s) ==
    LET ink == {i \in 1..Len(s) : s[i] # " "}
    IN  IF ink = {} THEN <<>>
        ELSE SubSeq(s, CHOOSE i \in ink : \A j \in ink : i <= j,
                       CHOOSE i \in ink : \A j \in ink : j <= i)

\* The values of one column, in row order.
ColumnOf(df, col) == [i \in 1..Len(df.rows) |-> df.rows[i][col]]

\* Series.dropna().unique(): the distinct values that are not missing, in order of
\* first appearance.
Unique(seq) ==
    LET RECURSIVE u(_)
        u(n) == IF n = 0 THEN <<>>
                ELSE IF seq[n] = NaN \/ \E j \in 1..(n - 1) : seq[j] = seq[n] THEN u(n - 1)
                ELSE Append(u(n - 1), seq[n])
    IN  u(Len(seq))

\* str(c) for a value of column col: the text itself; a number of an integer column as
\* digits and of a float column (one with a missing value) with ".0"; a missing value
\* as "nan", or as "None" in a column the file did not have.
StrOf(df, col, c) ==
    LET missing == {i \in 1..Len(df.rows) : df.rows[i][col] = NaN}
    IN  IF IsStr(c) THEN c[2]
        ELSE IF IsNum(c)
             THEN IF missing = {} THEN IntText(c[2]) ELSE IntText(c[2]) \o <<".", "0">>
        ELSE IF df.dtypes[col] = "object" /\ missing = 1..Len(df.rows)
             THEN <<"N", "o", "n", "e">>
        ELSE <<"n", "a", "n">>

\* The value as Python has it: a str for text, the number otherwise.
PyValue(c) == IF IsStr(c) THEN c[2] ELSE c

\* A categories() that keeps whitespace-only values.
categories_keep_blank(df) ==
    LET present == Unique(ColumnOf(df, "category"))
    IN  Ok([i \in 1..Len(present) |-> PyValue(SortBy(present, CellLess)[i])])

\* categories(): sorted(c for c in dropna().unique() if str(c).strip())
categories(df) ==
    LET keep(c) == Stripped(StrOf(df, "category", c)) # <<>>
        kept == SortBy(Select(Unique(ColumnOf(df, "category")), keep), CellLess)
    IN  Ok([i \in 1..Len(kept) |-> PyValue(kept[i])])

\* Series.min() / Series.max() over the numbers of a group: NaN when there is none.
SeriesMin(xs) ==
    IF xs = <<>> THEN NaN
    ELSE Frac(CHOOSE x \in Range(xs) : \A y \in Range(xs) : x <= y, 1)

SeriesMax(xs) ==
    IF xs = <<>> THEN NaN
    ELSE Frac(CHOOSE x \in Range(xs) : \A y \in Range(xs) : y <= x, 1)

\* sort_values(["count", "category"], ascending=[False, True])
CountDescThenCategory(a, b) ==
    \/ a.count > b.count
    \/ a.count = b.count /\ CellLess(a.category, b.category)

\* stats_by_category(): groupby("category", dropna=True) makes one group per category
\* value that is not missing; count, mean, min and max skip the missing prices.
stats_by_category(df) ==
    LET d == _numeric_price(df)
        keys == Unique(ColumnOf(d, "category"))
        group(k) == LET member(r) == r.category = k
                    IN  NumbersOf(Select(d.rows, member), "price")
        g == [i \in 1..Len(keys) |->
                 [category |-> keys[i], count |-> Len(group(keys[i])),
                  avg |-> mean(group(keys[i])),
                  min |-> SeriesMin(group(keys[i])), max |-> SeriesMax(group(keys[i]))]]
        sorted == SortBy(g, CountDescThenCategory)
    IN  IF d.rows = <<>> THEN Ok(<<>>)
        ELSE Ok([i \in 1..Len(sorted) |->
                    [category  |-> StrOf(d, "category", sorted[i].category),
                     count     |-> sorted[i].count,
                     avg_price |-> round2(sorted[i].avg),
                     min_price |-> round2(sorted[i].min),
                     max_price |-> round2(sorted[i].max)]])

\* features(limit, offset): the five feature columns, category as stripped text.
features(df, limit, offset) ==
    LET d == _numeric_price(df)
        out == [i \in 1..Len(d.rows) |->
                   [c \in {"id", "title", "price", "rating", "category"} |->
                       IF c = "category"
                       THEN Str(Stripped(StrOf(d, "category", d.rows[i].category)))
                       ELSE d.rows[i][c]]]
    IN  IF d.rows = <<>> THEN Ok(<<>>)
        ELSE Ok(ILoc(out, offset, offset + limit))

\* training_data(limit, offset)
training_data(df, limit, offset) == features(df, limit, offset)

\* A frame as a method holds it: its contents, and whether it is the very object the
\* cache holds. Without a copy the method works on the cached object.
alias(df) == [frame |-> df, cached |-> TRUE]

\* df.copy(): an object of its own with the same contents.
copy(df) == [frame |-> df, cached |-> FALSE]

\* obj[col] = pd.to_numeric(obj[col], errors="coerce"): the contents of the cached
\* object afterwards; the assignment reaches it only when obj is that object.
Assigned(obj, col) == IF obj.cached THEN Coerced(obj.frame, col) ELSE obj.frame

\* The contents of the cached object after a method has worked on the table df: the
\* methods that go through _numeric_price assign to a price column, top_rated to a
\* rating column; the others only select from df.
LeavesInCache(name, df) ==
    IF name \in {"price_range", "avg_price", "stats_overview", "stats_by_category",
                 "features", "training_data"}
    THEN Assigned(copy(df), "price")
    ELSE IF name = "top_rated" THEN Assigned(copy(df), "rating")
    ELSE df

(* --------------- queries on a repository over an unchanged file -------- *)

\* The rows the tables of the query checks are drawn from: titles that differ in case,
\* equal prices and equal ratings, a row with every field empty, a row whose price and
\* rating are text, a rating of 0.
RowPool ==
    { Book(<<"A", "b">>, <<"1", "0">>, <<"3">>, <<"x">>),
      Book(<<"a">>, <<"2", "0">>, <<"5">>, <<"X", "y">>),
      Book(<<"b">>, <<"1", "0">>, <<"5">>, <<"x">>),
      Book(<<>>, <<>>, <<>>, <<>>),
      Book(<<"b", ".">>, <<"a">>, <<"T">>, <<" ">>),
      Book(<<"a", "b">>, <<"5">>, <<"0">>, <<"y">>) }

QueryContents ==
    {Content(EXPECTED, rws) : rws \in UNION {[1..n -> RowPool] : n \in 0..MaxRows}}
        \cup {DataC}

Limits == {1, MaxRows}

Offsets == {0, 1, MaxRows}

BookIds == (0 - 1)..(MaxRows + 1)

TitleFilters == {None, Some(<<>>), Some(<<"a">>), Some(<<"A", "B">>), Some(<<".">>)}

CategoryFilters == {None, Some(<<"x">>)}

MinPrices == {0, 10, 20}

MaxPrices == {10, 20}

\* A repository just constructed over a file the scraper has written once.
InitQ ==
    /\ \E c \in QueryContents :
          /\ file = [exists |-> TRUE, mtime |-> 1, content |-> c]
          /\ written = <<c>>
    /\ clock = 1
    /\ cache_df = None
    /\ cache_mtime = None
    /\ call = Idle
    /\ pc = [t \in Threads |-> "idle"]
    /\ t_mtime = [t \in Threads |-> None]
    /\ t_df = [t \in Threads |-> None]
    /\ ret = [t \in Threads |-> None]

\* A public method: it asks _df for the table, then computes its answer from it; the
\* cache keeps the object _df returned, with whatever the method assigned into it.
Answer(name, a, Method(_)) ==
    LET d == _df(cache_df, cache_mtime, file)
    IN  /\ cache_df' = IF d.raised THEN d.df ELSE Some(LeavesInCache(name, d.df[1]))
        /\ cache_mtime' = d.mtime
        /\ call' = Called(name, a, d, IF d.raised THEN Raised ELSE Method(d.out[1]))
        /\ UNCHANGED <<file, clock, written, pc, t_mtime, t_df, ret>>

List ==
    /\ call.op = "idle"
    /\ \E limit \in Limits, offset \in Offsets :
          LET m(df) == list(df, limit, offset)
          IN  Answer("list", [limit |-> limit, offset |-> offset], m)

Get ==
    /\ call.op = "idle"
    /\ \E book_id \in BookIds :
          LET m(df) == get(df, book_id)
          IN  Answer("get", [book_id |-> book_id], m)

Search ==
    /\ call.op = "idle"
    /\ \E title \in TitleFilters, category \in CategoryFilters,
          limit \in Limits, offset \in Offsets :
          LET m(df) == search(df, title, category, limit, offset)
          IN  Answer("search", [title |-> title, category |-> category,
                                limit |-> limit, offset |-> offset], m)

PriceRange ==
    /\ call.op = "idle"
    /\ \E min_price \in MinPrices, max_price \in MaxPrices,
          limit \in Limits, offset \in Offsets :
          LET m(df) == price_range(df, min_price, max_price, limit, offset)
          IN  Answer("price_range", [min_price |-> min_price, max_price |-> max_price,
                                     limit |-> limit, offset |-> offset], m)

TopRated ==
    /\ call.op = "idle"
    /\ \E limit \in 1..(MaxRows + 1) :
          LET m(df) == top_rated(df, limit)
          IN  Answer("top_rated", [limit |-> limit], m)

AvgPrice ==
    /\ call.op = "idle"
    /\ LET m(df) == avg_price(df)
       IN  Answer("avg_price", <<>>, m)

StatsOverview ==
    /\ call.op = "idle"
    /\ LET m(df) == stats_overview(df)
       IN  Answer("stats_overview", <<>>, m)

StatsByCategory ==
    /\ call.op = "idle"
    /\ LET m(df) == stats_by_category(df)
       IN  Answer("stats_by_category", <<>>, m)

Categories ==
    /\ call.op = "idle"
    /\ LET m(df) == categories(df)
       IN  Answer("categories", <<>>, m)

Features ==
    /\ call.op = "idle"
    /\ \E limit \in Limits, offset \in Offsets :
          LET m(df) == features(df, limit, offset)
          IN  Answer("features", [limit |-> limit, offset |-> offset], m)

TrainingData ==
    /\ call.op = "idle"
    /\ \E limit \in Limits, offset \in Offsets :
          LET m(df) == training_data(df, limit, offset)
          IN  Answer("training_data", [limit |-> limit, offset |-> offset], m)

NextQ ==
    \/ Return \/ List \/ Get \/ Search \/ PriceRange \/ TopRated
    \/ AvgPrice \/ StatsOverview
    \/ StatsByCategory \/ Categories
    \/ Features \/ TrainingData

SpecQ == InitQ /\ [][NextQ]_vars

(* --------------------------- the queries: claims ----------------------- *)

\* The rows of the table the finished call was answered from.
Table == cache_df[1].rows

\* C6: the row at position i of a loaded table has id i; get(id) returns the row of
\* list(N, 0) that carries that id, and None for every id below 1 or above N.
C6_IdsAndGetRoundTrip ==
    /\ cache_df # None => \A i \in 1..Len(Table) : Table[i].id = Num(i)
    /\ call.op = "get" =>
          LET N == Len(Table)
              id == call.args.book_id
              listed == list(cache_df[1], N, 0).out
          IN  /\ ~call.raised
              /\ Len(listed) = N
              /\ \A k \in 1..Len(listed) : listed[k].id = Num(id) => call.out = Some(listed[k])
              /\ (id < 1 \/ id > N) <=> call.out = None

\* get(2) on a table of two rows returns its second row.
C6_Witness ==
    /\ call.op = "get"
    /\ call.args.book_id = 2
    /\ Len(Table) = 2
    /\ call.out = Some(Table[2])
    /\ Table[2] # Table[1]

\* C7: list(limit, offset) returns at most limit rows, exactly the rows at positions
\* offset+1 .. offset+limit of the table that exist, in table order; nothing for an
\* offset at or past the row count; and it never raises.
C7_ListIsSlice ==
    call.op = "list" =>
        LET N == Len(Table)
            limit == call.args.limit
            offset == call.args.offset
        IN  /\ ~call.raised
            /\ Len(call.out) <= limit
            /\ Len(call.out) = Max(0, Min(limit, N - offset))
            /\ \A k \in 1..Len(call.out) : call.out[k] = Table[offset + k]
            /\ offset >= N => call.out = <<>>

\* A last page that is cut short by the end of the table.
C7_Witness ==
    /\ call.op = "list"
    /\ call.args.offset = 1
    /\ call.args.limit = 2
    /\ Len(Table) = 2
    /\ call.out = <<Table[2]>>

\* Whether sub occurs in the cell's text as a literal substring, ignoring case; a
\* missing cell contains nothing.
ContainsLiteral(cell, sub) ==
    /\ IsStr(cell)
    /\ \E i \in 0..(Len(cell[2]) - Len(sub)) :
          \A j \in 1..Len(sub) : Lower(sub[j]) = Lower(cell[2][i + j])

\* C8: search returns, in table order and paginated after filtering, exactly the rows
\* in which every provided filter text occurs in its column as a literal
\* case-insensitive substring.
C8_SearchLiteralSubstring ==
    call.op = "search" =>
        LET title == call.args.title
            category == call.args.category
            keep(r) == /\ Given(title) => ContainsLiteral(r.title, title[1])
                       /\ Given(category) => ContainsLiteral(r.category, category[1])
        IN  /\ ~call.raised
            /\ call.out = ILoc(Select(Table, keep), call.args.offset,
                               call.args.offset + call.args.limit)

\* C9: price_range returns the page [offset, offset+limit) of exactly the rows whose
\* price is numeric and within [min, max], both bounds included, ordered by price
\* ascending and, at equal price, by ascending id.
C9_PriceRangeSortedPage ==
    call.op = "price_range" =>
        LET N == Len(Table)
            lo == call.args.min_price
            hi == call.args.max_price
            offset == call.args.offset
            price(i) == to_numeric(Table[i].price)
            M == {i \in 1..N : IsNum(price(i)) /\ lo <= price(i)[2] /\ price(i)[2] <= hi}
            ahead(i) == {j \in M : \/ price(j)[2] < price(i)[2]
                                   \/ price(j)[2] = price(i)[2] /\ Table[j].id[2] < Table[i].id[2]}
            rank(i) == Cardinality(ahead(i))
            page == {i \in M : offset <= rank(i) /\ rank(i) < offset + call.args.limit}
        IN  /\ ~call.raised
            /\ Len(call.out) = Cardinality(page)
            /\ \A i \in page :
                  call.out[rank(i) - offset + 1] = [Table[i] EXCEPT !.price = price(i)]

\* Both bounds are met with equality by two rows of equal price, returned in id order.
C9_Witness ==
    /\ call.op = "price_range"
    /\ call.args.min_price = 10
    /\ call.args.max_price = 10
    /\ call.args.offset = 0
    /\ Len(call.out) = 2
    /\ call.out[1].price = Num(10)
    /\ call.out[2].price = Num(10)
    /\ call.out[1].id = Num(1)

\* C10: top_rated(n) returns the first n rows of the table sorted by rating
\* descending: ratings do not increase along the output, rows of equal rating are in
\* ascending id order, every row without a numeric rating comes after every row with
\* one, and no row left out would sort before a row returned.
C10_TopRatedOrder ==
    call.op = "top_rated" =>
        LET N == Len(Table)
            n == call.args.limit
            out == call.out
            row(i) == [Table[i] EXCEPT !.rating = to_numeric(Table[i].rating)]
            \* a sorts strictly before b
            before(a, b) ==
                \/ IsNum(a.rating) /\ ~IsNum(b.rating)
                \/ IsNum(a.rating) /\ IsNum(b.rating) /\ a.rating[2] > b.rating[2]
                \/ IsNum(a.rating) /\ a.rating = b.rating /\ a.id[2] < b.id[2]
            returned == {out[k].id[2] : k \in 1..Len(out)}
        IN  /\ ~call.raised
            /\ Len(out) = Min(n, N)
            /\ \A k \in 1..Len(out) : out[k].id[2] \in 1..N /\ out[k] = row(out[k].id[2])
            /\ \A k, l \in 1..Len(out) : k < l =>
                  /\ out[k].id # out[l].id
                  /\ ~before(out[l], out[k])
                  /\ IsNum(out[l].rating) => /\ IsNum(out[k].rating)
                                             /\ out[k].rating[2] >= out[l].rating[2]
                  /\ (IsNum(out[k].rating) /\ out[k].rating = out[l].rating) =>
                        out[k].id[2] < out[l].id[2]
            /\ \A i \in (1..N) \ returned : \A k \in 1..Len(out) : ~before(row(i), out[k])

\* The first row of the table has no numeric rating and is returned after the second.
C10_Witness ==
    /\ call.op = "top_rated"
    /\ Len(call.out) = 2
    /\ call.out[1].id = Num(2)
    /\ call.out[2].id = Num(1)
    /\ IsNum(call.out[1].rating)
    /\ ~IsNum(call.out[2].rating)

\* The numeric prices of the table, in row order.
NumericPrices == NumbersOf(_numeric_price(cache_df[1]).rows, "price")

\* C11: avg_price() is the mean of the prices that parse as numbers and
\* stats_overview().avg_price is that mean rounded to two decimals; both are 0.0 when
\* the dataset is empty and when no row has a numeric price.
C11_AvgPriceIsMeanOrZero ==
    /\ (call.op = "avg_price" /\ ~call.raised) =>
          call.out = (IF NumericPrices = <<>> THEN Frac(0, 1)
                      ELSE Frac(SumSeq(NumericPrices), Len(NumericPrices)))
    /\ (call.op = "stats_overview" /\ ~call.raised) =>
          call.out.avg_price = (IF NumericPrices = <<>> THEN Frac(0, 1)
                                ELSE round2(Frac(SumSeq(NumericPrices), Len(NumericPrices))))

\* C12: for every dataset stats_overview() succeeds, and its ratings_distribution has
\* exactly the keys "1".."5", with values that sum to the number of rows whose rating
\* parses as a number.
C12_RatingsDistribution ==
    call.op = "stats_overview" =>
        /\ ~call.raised
        /\ DOMAIN call.out.ratings_distribution = RATING_KEYS
        /\ LET dist == call.out.ratings_distribution
               total == dist[<<"1">>] + dist[<<"2">>] + dist[<<"3">>] + dist[<<"4">>] + dist[<<"5">>]
           IN  total = Cardinality({i \in 1..Len(Table) : IsNum(to_numeric(Table[i].rating))})

\* A category that counts as blank: missing, empty or only whitespace.
BlankCategory(c) == ~IsStr(c) \/ \A i \in 1..Len(c[2]) : c[2][i] = " "

\* The numeric prices of the rows of one category, in row order.
PricesIn(cat) ==
    LET member(r) == r.category = Str(cat)
    IN  NumbersOf(Select(_numeric_price(cache_df[1]).rows, member), "price")

\* C13: stats_by_category() has one entry per non-blank category with at least one
\* numeric-price row, carrying count, min, avg and max of that category's numeric
\* prices (two decimals); blank categories and categories with no countable row do
\* not appear; entries are ordered by count descending, then category ascending.
C13_StatsByCategory ==
    (call.op = "stats_by_category" /\ ~call.raised) =>
        LET out == call.out
            countable == {Table[i].category[2] : i \in {j \in 1..Len(Table) :
                            /\ ~BlankCategory(Table[j].category)
                            /\ IsNum(to_numeric(Table[j].price))}}
        IN  /\ {out[i].category : i \in 1..Len(out)} = countable
            /\ Len(out) = Cardinality(countable)
            /\ \A i \in 1..Len(out) :
                  LET ps == PricesIn(out[i].category)
                  IN  /\ ps # <<>>
                      /\ out[i].count = Len(ps)
                      /\ out[i].avg_price = round2(Frac(SumSeq(ps), Len(ps)))
                      /\ \E x \in Range(ps) : /\ out[i].min_price = Frac(x, 1)
                                              /\ \A y \in Range(ps) : x <= y
                      /\ \E x \in Range(ps) : /\ out[i].max_price = Frac(x, 1)
                                              /\ \A y \in Range(ps) : y <= x
            /\ \A i \in 1..Len(out), j \in 1..Len(out) :
                  i < j => \/ out[i].count > out[j].count
                           \/ /\ out[i].count = out[j].count
                              /\ TextLess(out[i].category, out[j].category)

ResultOn(name, a, df) ==
    CASE name = "list" -> list(df, a.limit, a.offset)
      [] name = "get" -> get(df, a.book_id)
      [] name = "search" -> search(df, a.title, a.category, a.limit, a.offset)
      [] name = "categories" -> categories(df)
      [] name = "top_rated" -> top_rated(df, a.limit)
      [] name = "price_range" -> price_range(df, a.min_price, a.max_price, a.limit, a.offset)
      [] name = "features" -> features(df, a.limit, a.offset)
      [] name = "training_data" -> training_data(df, a.limit, a.offset)
      [] name = "avg_price" -> avg_price(df)
      [] name = "stats_overview" -> stats_overview(df)
      [] name = "stats_by_category" -> stats_by_category(df)

\* C15: while the backing file is unchanged, every query and aggregation leaves the
\* cached table and the stored timestamp as the first load made them, and what a call
\* answers depends only on its name, its arguments and that table: the same call made
\* again, after any other calls, answers the same.
C15_QueriesLeaveCacheUnchanged ==
    /\ cache_df # None => cache_df = Some(LoadedAt(1)) /\ cache_mtime = Some(1)
    /\ call.op # "idle" =>
          /\ call.pre_df # None => ~call.loaded /\ call.pre_df = cache_df
          /\ [raised |-> call.raised, out |-> call.out]
                = ResultOn(call.op, call.args, LoadedAt(1))

\* A second or later call has coerced a price column that holds text, in its own copy.
C15_Witness ==
    /\ call.op = "price_range"
    /\ call.pre_df # None
    /\ _numeric_price(cache_df[1]) # cache_df[1]
    /\ call.out # <<>>

\* C16: when calls of _df on one instance race to reload, then once all of them have
\* returned the cached table and the stored timestamp come from the same reload: a
\* table loaded from an older content of the file is not left with the timestamp of a
\* newer, different content.
C16_LastWriterWins ==
    (/\ \A t \in Threads : pc[t] = "idle"
     /\ cache_df # None
     /\ cache_mtime # None) =>
        \A k \in 1..(cache_mtime[1] - 1) :
            ~ /\ written[k].ok
              /\ written[cache_mtime[1]].ok
              /\ cache_df[1] = LoadedAt(k)
              /\ cache_df[1] # LoadedAt(cache_mtime[1])

(* ----------------------------- the serving process --------------------- *)

\* get_repo(): CSVBookRepository(DATA_CSV), constructed with an empty cache entry.
get_repo == [cache_df |-> None, cache_mtime |-> None]

\* One request to a route that queries the table (list_categories): Depends(get_repo)
\* provides the repository and the handler calls its method. cache_df and cache_mtime
\* are the entry of the instance that served the latest request.
Request ==
    /\ call.op = "idle"
    /\ LET repo == get_repo
           d == _df(repo.cache_df, repo.cache_mtime, file)
       IN  /\ cache_df' = d.df
           /\ cache_mtime' = d.mtime
           /\ call' = Called("request", <<>>, d,
                             IF d.raised THEN Raised ELSE categories(d.out[1]))
    /\ UNCHANGED <<file, clock, written, pc, t_mtime, t_df, ret>>

NextServe == WriteFile \/ DeleteFile \/ Return \/ Request

SpecServe == Init /\ [][NextServe]_vars

\* C17: the serving process has one cache instance per backing file, shared across
\* requests: a request that follows another while the file is unchanged does not
\* invoke the loader and is answered from the cache entry the earlier one left.
C17_OneCachePerFile ==
    (/\ call.op = "request"
     /\ call.pre_df # None
     /\ call.obs = call.pre_mtime) =>
        /\ ~call.loaded
        /\ cache_df = call.pre_df

====
